---- MODULE Spec2Model ----
(***************************************************************************)
(* Model of the Alertmanager webhook -> MQTT bridge (main.go).             *)
(*                                                                         *)
(* Two specifications share this module:                                   *)
(*   SpecReduce : the pure function highestSeverity applied to every alert *)
(*                sequence of a bounded input set;                         *)
(*   Spec       : the /alert handler run by concurrent requests that share *)
(*                one MQTT client and one retained broker topic.           *)
(*                                                                         *)
(* Go strings that the code transforms (severity values) are sequences of  *)
(* one-character strings, so that ToLower, TrimSpace and ToUpper are       *)
(* computed and not assumed.  Strings that are only compared (status,      *)
(* label keys, HTTP method) are TLA+ strings.                              *)
(***************************************************************************)
EXTENDS Integers, Sequences, FiniteSets, TLC

VARIABLES
    alerts,       \* SpecReduce: argument of highestSeverity
    ret,          \* SpecReduce: <<>> before the call, <<result>> after it
    request,      \* Spec: per request, <<>> or <<the HTTP request received>>
    pc,           \* Spec: per request, position of its handler goroutine
    msg,          \* Spec: per request, <<>> or <<message given to client.Publish>>
    reducerCalls, \* Spec: per request, number of highestSeverity calls
    publishCalls, \* Spec: per request, number of client.Publish calls
    tokenErr,     \* Spec: per request, "pending" | "nil" | "error" (token.Error())
    response,     \* Spec: per request, 0 or the HTTP status code written
    accepted,     \* Spec: requests whose publish the broker has stored
    retained,     \* Spec: broker's retained value on the topic, <<>> or <<payload>>
    lastAccepted  \* Spec: request whose publish the broker accepted last, 0 if none

vars == <<alerts, ret, request, pc, msg, reducerCalls, publishCalls, tokenErr,
          response, accepted, retained, lastAccepted>>

reduceVars == <<alerts, ret>>
serverVars == <<request, pc, msg, reducerCalls, publishCalls, tokenErr,
                response, accepted, retained, lastAccepted>>

(***************************************************************************)
(* Bounds                                                                  *)
(***************************************************************************)
MaxAlerts == 3

NumRequests == 2

(***************************************************************************)
(* Go strings package, on sequences of characters                          *)
(***************************************************************************)
Alphabet ==
    << <<"a","A">>, <<"b","B">>, <<"c","C">>, <<"d","D">>, <<"e","E">>,
       <<"f","F">>, <<"g","G">>, <<"h","H">>, <<"i","I">>, <<"j","J">>,
       <<"k","K">>, <<"l","L">>, <<"m","M">>, <<"n","N">>, <<"o","O">>,
       <<"p","P">>, <<"q","Q">>, <<"r","R">>, <<"s","S">>, <<"t","T">>,
       <<"u","U">>, <<"v","V">>, <<"w","W">>, <<"x","X">>, <<"y","Y">>,
       <<"z","Z">> >>

ToLowerChar(c) ==
    IF \E i \in DOMAIN Alphabet : Alphabet[i][2] = c
    THEN Alphabet[CHOOSE i \in DOMAIN Alphabet : Alphabet[i][2] = c][1]
    ELSE c

ToUpperChar(c) ==
    IF \E i \in DOMAIN Alphabet : Alphabet[i][1] = c
    THEN Alphabet[CHOOSE i \in DOMAIN Alphabet : Alphabet[i][1] = c][2]
    ELSE c

ToLower(s) == [i \in 1..Len(s) |-> ToLowerChar(s[i])]

ToUpper(s) == [i \in 1..Len(s) |-> ToUpperChar(s[i])]

IsSpace(c) == c \in {" ", "\t", "\n", "\r"}

RECURSIVE TrimLeft(_)
TrimLeft(s) ==
    IF s # <<>> /\ IsSpace(Head(s)) THEN TrimLeft(Tail(s)) ELSE s

RECURSIVE TrimRight(_)
TrimRight(s) ==
    IF s # <<>> /\ IsSpace(s[Len(s)])
    THEN TrimRight(SubSeq(s, 1, Len(s) - 1))
    ELSE s

TrimSpace(s) == TrimRight(TrimLeft(s))

HasPrefix(s, prefix) ==
    Len(s) >= Len(prefix) /\ SubSeq(s, 1, Len(prefix)) = prefix

(***************************************************************************)
(* Severity tokens and the rank table                                      *)
(***************************************************************************)
ok == <<"o","k">>
info == <<"i","n","f","o">>
warning == <<"w","a","r","n","i","n","g">>
error == <<"e","r","r","o","r">>
critical == <<"c","r","i","t","i","c","a","l">>

severityRank ==
    (ok :> 0) @@ (info :> 1) @@ (warning :> 2) @@ (error :> 3) @@ (critical :> 4)

(***************************************************************************)
(* Go maps: a nil map and a missing key both read as the empty string      *)
(***************************************************************************)
NilMap == [isNil |-> TRUE, kv |-> {}]

MakeMap(pairs) == [isNil |-> FALSE, kv |-> pairs]

MapGet(m, key) ==
    IF \E p \in m.kv : p[1] = key
    THEN (CHOOSE p \in m.kv : p[1] = key)[2]
    ELSE <<>>

(***************************************************************************)
(* highestSeverity                                                         *)
(***************************************************************************)
\* mutant of IsFiring: the status is compared without regard to case
IsFiringAnyCase(a) == a.Status \in {"firing", "Firing", "FIRING"}

IsFiring(a) == a.Status = "firing"

\* mutant of resolveSeverity: the label value is used as written
resolveSeverityRaw(a) ==
    LET s == MapGet(a.Labels, "severity")
    IN  IF ~a.Labels.isNil /\ s # <<>> THEN s ELSE info

resolveSeverity(a) ==
    LET s == ToLower(TrimSpace(MapGet(a.Labels, "severity")))
    IN  IF ~a.Labels.isNil /\ s # <<>> THEN s ELSE info

\* mutant of rankOf: an unknown token ranks as ok instead of info
rankOfUnknownAsOk(severity) ==
    IF severity \in DOMAIN severityRank
    THEN severityRank[severity]
    ELSE severityRank[ok]

rankOf(severity) ==
    IF severity \in DOMAIN severityRank
    THEN severityRank[severity]
    ELSE severityRank[info]

RECURSIVE highestSeverityLoop(_, _, _, _, _)
highestSeverityLoop(as, i, active, highest, highestRank) ==
    IF i > Len(as)
    THEN [state |-> ToUpper(highest), active |-> active]
    ELSE IF ~IsFiring(as[i])
    THEN highestSeverityLoop(as, i + 1, active, highest, highestRank)
    ELSE LET severity == resolveSeverity(as[i])
             rank == rankOf(severity)
         IN  IF rank > highestRank
             THEN highestSeverityLoop(as, i + 1, active + 1, severity, rank)
             ELSE highestSeverityLoop(as, i + 1, active + 1, highest, highestRank)

highestSeverity(as) == highestSeverityLoop(as, 1, 0, ok, severityRank[ok])

(***************************************************************************)
(* Inputs of SpecReduce                                                    *)
(***************************************************************************)
SeverityValues ==
    { critical,
      <<" ","C","R","I","T","I","C","A","L","\t">>,
      <<"E","r","r","o","r">>,
      warning,
      <<"W","a","r","n","i","n","g"," ">>,
      info,
      <<"O","K">>,
      <<"b","o","g","u","s">>,
      <<"w","e","i","r","d">>,
      <<" ","\t">>,
      <<>> }

FiringLabels ==
    {NilMap, MakeMap({}), MakeMap({<<"Severity", critical>>})}
    \cup {MakeMap({<<"severity", v>>}) : v \in SeverityValues}

OtherLabels == {NilMap, MakeMap({<<"severity", critical>>})}

Alerts ==
    {[Status |-> "firing", Labels |-> l] : l \in FiringLabels}
    \cup {[Status |-> "resolved", Labels |-> l] : l \in OtherLabels}
    \cup {[Status |-> "Firing", Labels |-> MakeMap({<<"severity", critical>>})]}

SeqsUpTo(S, n) == UNION {[1..k -> S] : k \in 0..n}

AlertSeqs == SeqsUpTo(Alerts, MaxAlerts)

(***************************************************************************)
(* SpecReduce                                                              *)
(***************************************************************************)
ServerIdle ==
    /\ request = [r \in 1..NumRequests |-> <<>>]
    /\ pc = [r \in 1..NumRequests |-> "idle"]
    /\ msg = [r \in 1..NumRequests |-> <<>>]
    /\ reducerCalls = [r \in 1..NumRequests |-> 0]
    /\ publishCalls = [r \in 1..NumRequests |-> 0]
    /\ tokenErr = [r \in 1..NumRequests |-> "pending"]
    /\ response = [r \in 1..NumRequests |-> 0]
    /\ accepted = {}
    /\ retained = <<>>
    /\ lastAccepted = 0

InitReduce ==
    /\ alerts \in AlertSeqs
    /\ ret = <<>>
    /\ ServerIdle

CallHighestSeverity ==
    /\ ret = <<>>
    /\ ret' = <<highestSeverity(alerts)>>
    /\ UNCHANGED alerts
    /\ UNCHANGED serverVars

NextReduce == CallHighestSeverity

SpecReduce == InitReduce /\ [][NextReduce]_vars

(***************************************************************************)
(* The /alert handler                                                      *)
(*                                                                         *)
(* A header value is a sequence of segments; a body is what json.Decode    *)
(* makes of it: a decoding error, or the decoded payload.                  *)
(***************************************************************************)
applicationJSON == <<"application/json">>

ContentTypes ==
    { <<>>,
      applicationJSON,
      <<"application/json", "-seq">>,
      <<"text/plain">> }

Methods == {"POST", "GET"}

Payloads ==
    { <<>>,
      << [Status |-> "firing", Labels |-> MakeMap({<<"severity", warning>>})],
         [Status |-> "firing", Labels |-> MakeMap({<<"severity", critical>>})],
         [Status |-> "resolved", Labels |-> MakeMap({<<"severity", critical>>})] >> }

BadJSON == [decodes |-> FALSE, Alerts |-> <<>>]

Bodies == {BadJSON} \cup {[decodes |-> TRUE, Alerts |-> p] : p \in Payloads}

Requests == [Method : Methods, ContentType : ContentTypes, Body : Bodies]

Reqs == 1..NumRequests

\* mutant of alertStatus: the content type is checked before the method
alertStatusContentTypeFirst(req) ==
    IF req.ContentType # <<>> /\ ~HasPrefix(req.ContentType, applicationJSON)
    THEN 415
    ELSE IF req.Method # "POST"
    THEN 405
    ELSE IF ~req.Body.decodes
    THEN 400
    ELSE 0

\* the status the handler rejects the request with, 0 when it goes on
alertStatus(req) ==
    IF req.Method # "POST"
    THEN 405
    ELSE IF req.ContentType # <<>> /\ ~HasPrefix(req.ContentType, applicationJSON)
    THEN 415
    ELSE IF ~req.Body.decodes
    THEN 400
    ELSE 0

\* mutant of mqttMessage: the message keeps the larger of the new count and
\* the count last retained by the broker
mqttMessageRemembers(state, active) ==
    IF retained # <<>> /\ retained[1].ActiveAlerts > active
    THEN retained[1]
    ELSE [State |-> state, ActiveAlerts |-> active, Source |-> "alertmanager"]

mqttMessage(state, active) ==
    [State |-> state, ActiveAlerts |-> active, Source |-> "alertmanager"]

\* mutant of publishStatus: the publish error is ignored
publishStatusIgnoresError(err) == 200

publishStatus(err) == IF err = "nil" THEN 200 ELSE 502

\* The handler from its entry to the point where publishState blocks in
\* token.Wait(): validation, decoding, highestSeverity, client.Publish.
HandleAlert(r) ==
    /\ pc[r] = "idle"
    /\ \E req \in Requests :
        /\ request' = [request EXCEPT ![r] = <<req>>]
        /\ IF alertStatus(req) # 0
           THEN /\ response' = [response EXCEPT ![r] = alertStatus(req)]
                /\ pc' = [pc EXCEPT ![r] = "done"]
                /\ UNCHANGED <<msg, reducerCalls, publishCalls>>
           ELSE LET result == highestSeverity(req.Body.Alerts)
                IN  /\ reducerCalls' = [reducerCalls EXCEPT ![r] = @ + 1]
                    /\ msg' = [msg EXCEPT ![r] =
                                  <<mqttMessage(result.state, result.active)>>]
                    /\ publishCalls' = [publishCalls EXCEPT ![r] = @ + 1]
                    /\ pc' = [pc EXCEPT ![r] = "publishing"]
                    /\ UNCHANGED response
    /\ UNCHANGED <<tokenErr, accepted, retained, lastAccepted>>
    /\ UNCHANGED reduceVars

\* The broker receives the PUBLISH (qos 1, retained) and stores the payload.
BrokerAccept(r) ==
    /\ pc[r] = "publishing"
    /\ retained' = msg[r]
    /\ lastAccepted' = r
    /\ accepted' = accepted \cup {r}
    /\ pc' = [pc EXCEPT ![r] = "accepted"]
    /\ UNCHANGED <<request, msg, reducerCalls, publishCalls, tokenErr, response>>
    /\ UNCHANGED reduceVars

\* The PUBACK arrives: token.Wait() returns, token.Error() is nil,
\* publishState returns nil and the handler answers.
PublishAcked(r) ==
    /\ pc[r] = "accepted"
    /\ tokenErr' = [tokenErr EXCEPT ![r] = "nil"]
    /\ response' = [response EXCEPT ![r] = publishStatus("nil")]
    /\ pc' = [pc EXCEPT ![r] = "done"]
    /\ UNCHANGED <<request, msg, reducerCalls, publishCalls, accepted, retained,
                   lastAccepted>>
    /\ UNCHANGED reduceVars

\* mutant of PublishFailed: a failed publish is issued again
PublishFailedRetries(r) ==
    /\ pc[r] \in {"publishing", "accepted"}
    /\ publishCalls[r] < 2
    /\ publishCalls' = [publishCalls EXCEPT ![r] = @ + 1]
    /\ pc' = [pc EXCEPT ![r] = "publishing"]
    /\ UNCHANGED <<request, msg, reducerCalls, tokenErr, response, accepted,
                   retained, lastAccepted>>
    /\ UNCHANGED reduceVars

\* The token completes with an error (not connected, or the connection is
\* lost before the PUBACK): publishState returns it and the handler answers.
PublishFailed(r) ==
    /\ pc[r] \in {"publishing", "accepted"}
    /\ tokenErr' = [tokenErr EXCEPT ![r] = "error"]
    /\ response' = [response EXCEPT ![r] = publishStatus("error")]
    /\ pc' = [pc EXCEPT ![r] = "done"]
    /\ UNCHANGED <<request, msg, reducerCalls, publishCalls, accepted, retained,
                   lastAccepted>>
    /\ UNCHANGED reduceVars

Init ==
    /\ alerts = <<>>
    /\ ret = <<>>
    /\ ServerIdle

Next ==
    \E r \in Reqs :
        \/ HandleAlert(r)
        \/ BrokerAccept(r)
        \/ PublishAcked(r)
        \/ PublishFailed(r)

Spec == Init /\ [][Next]_vars

(***************************************************************************)
(* Properties of highestSeverity (checked under SpecReduce)                *)
(***************************************************************************)
OK == <<"O","K">>
INFO == <<"I","N","F","O">>
WARNING == <<"W","A","R","N","I","N","G">>
ERROR == <<"E","R","R","O","R">>
CRITICAL == <<"C","R","I","T","I","C","A","L">>

FiveTokens == {OK, INFO, WARNING, ERROR, CRITICAL}

UpperTokenOfRank == <<OK, INFO, WARNING, ERROR, CRITICAL>>

Returned == ret # <<>>

FiringIndices(as) == {i \in 1..Len(as) : as[i].Status = "firing"}

\* the severity label value of an alert, lower-cased and trimmed
NormalisedLabel(a) == ToLower(TrimSpace(MapGet(a.Labels, "severity")))

\* the alert's severity label is absent, empty after trimming, or unknown
FallsBackToInfo(a) ==
    NormalisedLabel(a) = <<>> \/ NormalisedLabel(a) \notin {ok, info, warning, error, critical}

WithSeverity(a, v) ==
    [a EXCEPT !.Labels =
        MakeMap({p \in a.Labels.kv : p[1] # "severity"} \cup {<<"severity", v>>})]

SetMax(S) == CHOOSE x \in S : \A y \in S : y <= x

LevelOf(token) ==
    CHOOSE k \in 0..4 : UpperTokenOfRank[k + 1] = ToUpper(token)

Reorderings(n) == {p \in [1..n -> 1..n] : \A i, j \in 1..n : p[i] = p[j] => i = j}

C2_UnknownTreatedAsInfo ==
    Returned =>
        \A i \in FiringIndices(alerts) :
            FallsBackToInfo(alerts[i]) =>
                highestSeverity([alerts EXCEPT ![i] = WithSeverity(alerts[i], info)])
                    = ret[1]

\* C3 (as stated): the state is OK if and only if no alert is firing; any
\* firing alert, whatever its severity label, lifts the state above OK.
C3_OkIffNoFiring ==
    Returned =>
        /\ (ret[1].state = OK) <=> (FiringIndices(alerts) = {})
        /\ FiringIndices(alerts) # {} => ret[1].state # OK

\* C3 (amended): the state is OK if and only if no firing alert has a
\* resolved severity (label lower-cased and trimmed, "info" when absent or
\* empty) other than "ok"; a firing alert labelled ok leaves the state OK.
C3_OkIffNoFiringAboveOk ==
    Returned =>
        ((ret[1].state = OK) <=>
            (\A i \in FiringIndices(alerts) : NormalisedLabel(alerts[i]) = ok))

C3_WitnessFiringOk ==
    /\ Returned
    /\ FiringIndices(alerts) # {}
    /\ ret[1].state = OK

\* C4: the active count equals the number of alerts whose status is exactly
\* "firing", whatever their labels; it is 0 iff no alert is firing, and the
\* empty sequence gives OK and 0.
C4_ActiveCountsFiring ==
    Returned =>
        /\ ret[1].active = Cardinality(FiringIndices(alerts))
        /\ (ret[1].active = 0) <=> (\A i \in 1..Len(alerts) : alerts[i].Status # "firing")
        /\ alerts = <<>> => ret[1] = [state |-> OK, active |-> 0]

C4_Witness ==
    /\ Returned
    /\ Len(alerts) = 3
    /\ \E i \in 1..3 : alerts[i].Status = "Firing"
    /\ \E i \in 1..3 : alerts[i].Status = "firing" /\ alerts[i].Labels.isNil
    /\ \E i \in 1..3 : alerts[i].Status = "firing" /\ NormalisedLabel(alerts[i]) = critical
    /\ ret[1].active = 2

\* C5: when every firing alert's severity value, lower-cased and trimmed, is
\* one of the five tokens, the state is the upper-case token of the highest
\* level among the firing alerts (OK when none fires); non-firing alerts
\* never raise it.
C5_HighestAmongFiring ==
    Returned =>
        ((\A i \in FiringIndices(alerts) :
              NormalisedLabel(alerts[i]) \in {ok, info, warning, error, critical})
          => ret[1].state =
                UpperTokenOfRank[
                    1 + SetMax({0} \cup {LevelOf(NormalisedLabel(alerts[i])) :
                                            i \in FiringIndices(alerts)})])

C5_WitnessNormalised ==
    /\ Returned
    /\ \E i \in FiringIndices(alerts) :
           /\ MapGet(alerts[i].Labels, "severity") # NormalisedLabel(alerts[i])
           /\ NormalisedLabel(alerts[i]) = error
    /\ \E i \in 1..Len(alerts) :
           alerts[i].Status = "resolved" /\ NormalisedLabel(alerts[i]) = critical
    /\ ret[1].state = ERROR

\* C6: the result of highestSeverity does not depend on the order of the
\* alerts: every permutation of the input gives the same state and count.
C6_OrderIndependent ==
    Returned =>
        \A p \in Reorderings(Len(alerts)) :
            highestSeverity([i \in 1..Len(alerts) |-> alerts[p[i]]]) = ret[1]

(***************************************************************************)
(* Properties of the /alert handler (checked under Spec)                   *)
(***************************************************************************)
Received(r) == request[r] # <<>>

Done(r) == pc[r] = "done"

\* the request passed the method, content-type and decoding checks
ReachedCore(r) ==
    /\ Received(r)
    /\ request[r][1].Method = "POST"
    /\ request[r][1].ContentType = <<>>
           \/ HasPrefix(request[r][1].ContentType, applicationJSON)
    /\ request[r][1].Body.decodes

\* the media type of the header is application/json, with or without parameters
IsApplicationJSON(ct) ==
    \/ ct = applicationJSON
    \/ Len(ct) > 1 /\ ct[1] = "application/json" /\ ct[2] = ";"

NotProcessed(r) ==
    /\ reducerCalls[r] = 0
    /\ publishCalls[r] = 0
    /\ msg[r] = <<>>
    /\ r \notin accepted
    /\ lastAccepted # r

ExpectedMessage(r) ==
    LET result == highestSeverity(request[r][1].Body.Alerts)
    IN  [State |-> result.state, ActiveAlerts |-> result.active,
         Source |-> "alertmanager"]

\* C7: every request that passes validation and decoding causes exactly one
\* publish call: never zero, even when the aggregate equals the one already
\* retained, and never more than one, even when the transport fails.
C7_ExactlyOnePublish ==
    \A r \in Reqs :
        /\ publishCalls[r] <= 1
        /\ ReachedCore(r) => publishCalls[r] = 1 /\ msg[r] = <<ExpectedMessage(r)>>

C7_Witness ==
    \E r, q \in Reqs :
        /\ r # q
        /\ Done(r) /\ response[r] = 200 /\ lastAccepted = r
        /\ Done(q) /\ response[q] = 502 /\ q \notin accepted
        /\ msg[q] = retained
        /\ publishCalls[r] = 1 /\ publishCalls[q] = 1

\* C8: for a request that reached the core the response is 200 exactly when
\* the transport reported success and 502 exactly when it reported failure;
\* a 200 is never given for a publish the broker did not accept.
C8_StatusFollowsTransport ==
    \A r \in Reqs :
        ReachedCore(r) /\ Done(r) =>
            /\ tokenErr[r] \in {"nil", "error"}
            /\ (response[r] = 200) <=> (tokenErr[r] = "nil")
            /\ (response[r] = 502) <=> (tokenErr[r] = "error")
            /\ response[r] = 200 => r \in accepted

C8_Witness ==
    \E r, q \in Reqs :
        /\ Done(r) /\ ReachedCore(r) /\ response[r] = 200
        /\ Done(q) /\ ReachedCore(q) /\ response[q] = 502 /\ q \in accepted

\* C9 (as stated): a request with a method other than POST, with a content
\* type that is not application/json, or with an undecodable body gets 405,
\* 415 or 400 (checked in that order) and neither the reducer nor the
\* publisher runs for it.
C9_RejectedBeforeCore ==
    \A r \in Reqs :
        Received(r) =>
            LET req == request[r][1]
            IN  /\ req.Method # "POST" => response[r] = 405 /\ NotProcessed(r)
                /\ req.Method = "POST" /\ ~IsApplicationJSON(req.ContentType)
                       => response[r] = 415 /\ NotProcessed(r)
                /\ req.Method = "POST" /\ IsApplicationJSON(req.ContentType)
                       /\ ~req.Body.decodes
                       => response[r] = 400 /\ NotProcessed(r)

\* C9 (amended): a request with a method other than POST, with a non-empty
\* Content-Type that does not begin with application/json, or with an
\* undecodable body gets 405, 415 or 400 (checked in that order) and neither
\* the reducer nor the publisher runs for it; a request without Content-Type,
\* or with one that merely begins with application/json, is not rejected
\* with 415.
C9_RejectedBeforeCoreAmended ==
    \A r \in Reqs :
        Received(r) =>
            LET req == request[r][1]
                unsupported == /\ req.ContentType # <<>>
                               /\ SubSeq(req.ContentType, 1, 1) # applicationJSON
            IN  /\ req.Method # "POST" => response[r] = 405 /\ NotProcessed(r)
                /\ req.Method = "POST" /\ unsupported
                       => response[r] = 415 /\ NotProcessed(r)
                /\ req.Method = "POST" /\ ~unsupported /\ ~req.Body.decodes
                       => response[r] = 400 /\ NotProcessed(r)
                /\ req.Method = "POST" /\ ~unsupported /\ req.Body.decodes
                       => response[r] \notin {400, 405, 415} /\ publishCalls[r] = 1

C9_Witness ==
    \E r, q \in Reqs :
        /\ Done(r) /\ request[r][1].Method = "GET"
        /\ request[r][1].ContentType = <<"text/plain">>
        /\ request[r][1].Body = BadJSON
        /\ response[r] = 405
        /\ Done(q) /\ request[q][1].Method = "POST"
        /\ request[q][1].ContentType = <<"text/plain">>
        /\ request[q][1].Body = BadJSON
        /\ response[q] = 415
        /\ retained = <<>>

\* C10: under any interleaving the retained value is either unset or exactly
\* the message computed by highestSeverity from the alerts of the request
\* whose publish the broker accepted last.
C10_LastWriteWins ==
    /\ (retained = <<>>) <=> (lastAccepted = 0)
    /\ lastAccepted # 0 =>
           /\ lastAccepted \in Reqs
           /\ ReachedCore(lastAccepted)
           /\ retained = <<ExpectedMessage(lastAccepted)>>

C10_Witness ==
    \E r, q \in Reqs :
        /\ accepted = {r, q}
        /\ pc[r] = "accepted" /\ pc[q] = "accepted"
        /\ msg[r] # msg[q]
        /\ msg[r][1].ActiveAlerts > msg[q][1].ActiveAlerts
        /\ lastAccepted = q
        /\ retained = msg[q]

====
